---- MODULE Spec2Model ----
(***************************************************************************)
(* Quiet-interval segmentation of clean-cut's python backend.              *)
(*                                                                         *)
(* Four detection pipelines are modelled, each as the sequence of calls    *)
(* its entry point makes:                                                  *)
(*   strict  silence_detector.main                                         *)
(*   energy  silence_detector_energy.main                                  *)
(*   vad     silence_detector_vad.main                                     *)
(*   cutter  vad_cutter.cut_silences_with_vad                              *)
(* SpecMergePass applies the three merge passes on their own to any list   *)
(* of regions.                                                             *)
(*                                                                         *)
(* Times of the first three pipelines are integer milliseconds, as in the  *)
(* code.  vad_cutter works in float seconds; the model keeps its times in  *)
(* thousandths of a second, so 0.1 s is 100 and 0.5 s is 500.  A value     *)
(* printed in seconds is the pair <<n, 1000>> standing for n / 1000.       *)
(* Levels of the strict pipeline are whole dB.  Levels of the energy       *)
(* pipeline are kept in thirds of a dB, so that the three-point moving      *)
(* average of smooth_energy_profile is exact.                              *)
(***************************************************************************)
EXTENDS Integers, Sequences, FiniteSets, TLC

VARIABLES pipeline, stage, frames, speech_timestamps, silence_thresh_db,
          min_silence_len_ms, padding_ms, audio_duration, smoothed_levels,
          quiet_regions, merged_regions, filtered_regions, padded_regions,
          final_regions, output_regions, stdout, error_printed, exit_status,
          current_rate, vad_rate, original_frames, video_frame_rate,
          video_duration, last_reported_frame, last_progress_time,
          return_code, lines_read

vars == <<pipeline, stage, frames, speech_timestamps, silence_thresh_db,
          min_silence_len_ms, padding_ms, audio_duration, smoothed_levels,
          quiet_regions, merged_regions, filtered_regions, padded_regions,
          final_regions, output_regions, stdout, error_printed, exit_status,
          current_rate, vad_rate, original_frames, video_frame_rate,
          video_duration, last_reported_frame, last_progress_time,
          return_code, lines_read>>

(***************************************************************************)
(* Bounds of the model.                                                    *)
(***************************************************************************)
\* Most runs of equal frames in a generated profile.
MaxRuns == 3
\* Longest run, in frames, of a generated strict or vad profile.
MaxRunLen == 5

(***************************************************************************)
(* Small helpers.                                                          *)
(***************************************************************************)
Max(a, b) == IF a >= b THEN a ELSE b

Min(a, b) == IF a <= b THEN a ELSE b

\* Python's "no value" for current_region_start / current_start.
None == -1

\* Lexicographic order of 2-tuples, as Python's list.sort() on tuples.
TupleLeq(a, b) == a[1] < b[1] \/ (a[1] = b[1] /\ a[2] <= b[2])

RECURSIVE Insert(_, _)
Insert(x, s) ==
  IF s = <<>> THEN <<x>>
  ELSE IF TupleLeq(x, Head(s)) THEN <<x>> \o s
  ELSE <<Head(s)>> \o Insert(x, Tail(s))

RECURSIVE Sort(_)
Sort(s) == IF s = <<>> THEN <<>> ELSE Insert(Head(s), Sort(Tail(s)))

\* Python's sum() of a list of booleans.
SumTrue(bs) == Cardinality({i \in 1..Len(bs) : bs[i]})

(***************************************************************************)
(* silence_detector.py                                                     *)
(***************************************************************************)
\* frame_duration of group_quiet_regions and frame_size_ms of main.
frame_duration == 20

\* The purity test turned around.
QualifiesBad(current_region_frames, purity) ==
  SumTrue(current_region_frames) * purity[2]
    <= purity[1] * Len(current_region_frames)

\* quiet_percentage >= quiet_frame_threshold, the threshold a fraction
\* <<num, den>> (0.8 is <<4, 5>>).
Qualifies(current_region_frames, purity) ==
  SumTrue(current_region_frames) * purity[2]
    >= purity[1] * Len(current_region_frames)

\* The scanner's state before the first frame.
GroupInit ==
  [current_region_start |-> None, current_region_frames |-> <<>>,
   quiet_regions |-> <<>>]

\* Closing a tracked region without resetting the scanner.
GroupCloseKeepOpen(st, frs, region_end, purity) ==
  [current_region_start |-> st.current_region_start,
   current_region_frames |-> frs,
   quiet_regions |->
     IF Qualifies(frs, purity)
     THEN Append(st.quiet_regions, <<st.current_region_start, region_end>>)
     ELSE st.quiet_regions]

\* Closing a tracked region at region_end: emit it if it qualifies, and
\* reset either way.
GroupClose(st, frs, region_end, purity) ==
  [current_region_start |-> None, current_region_frames |-> <<>>,
   quiet_regions |->
     IF Qualifies(frs, purity)
     THEN Append(st.quiet_regions, <<st.current_region_start, region_end>>)
     ELSE st.quiet_regions]

\* A frame on the threshold counted as quiet.
IsQuietLeq(db_level, silence_thresh) == db_level <= silence_thresh

\* is_quiet = db_level < silence_thresh_db.
IsQuiet(db_level, silence_thresh) == db_level < silence_thresh

\* The loop body with a region force-closed one frame early.
GroupStepEager(st, frame, silence_thresh, min_quiet_frames, purity) ==
  LET timestamp_ms == frame[1]
      is_quiet == IsQuiet(frame[2], silence_thresh)
  IN IF st.current_region_start = None
     THEN IF is_quiet
          THEN [st EXCEPT !.current_region_start = timestamp_ms,
                          !.current_region_frames = <<is_quiet>>]
          ELSE st
     ELSE LET frs == Append(st.current_region_frames, is_quiet)
          IN IF \/ ~is_quiet /\ Len(frs) >= min_quiet_frames
                \/ Len(frs) >= min_quiet_frames * 3
             THEN GroupClose(st, frs, timestamp_ms, purity)
             ELSE [st EXCEPT !.current_region_frames = frs]

\* One iteration of the loop over frames_analysis.
GroupStep(st, frame, silence_thresh, min_quiet_frames, purity) ==
  LET timestamp_ms == frame[1]
      is_quiet == IsQuiet(frame[2], silence_thresh)
  IN IF st.current_region_start = None
     THEN IF is_quiet
          THEN [st EXCEPT !.current_region_start = timestamp_ms,
                          !.current_region_frames = <<is_quiet>>]
          ELSE st
     ELSE LET frs == Append(st.current_region_frames, is_quiet)
              region_duration_frames == Len(frs)
          IN IF ~is_quiet /\ region_duration_frames >= min_quiet_frames
             THEN GroupClose(st, frs, timestamp_ms, purity)
             ELSE IF region_duration_frames > min_quiet_frames * 3
             THEN GroupClose(st, frs, timestamp_ms, purity)
             ELSE [st EXCEPT !.current_region_frames = frs]

\* The loop over frames lo..hi, entered in state st (split in halves to
\* keep the evaluation shallow; the frames are visited in order, and the
\* test on `half` only makes the first half be evaluated before the second).
RECURSIVE GroupScan(_, _, _, _, _, _, _)
GroupScan(fs, lo, hi, st, silence_thresh, min_quiet_frames, purity) ==
  IF lo > hi THEN st
  ELSE IF lo = hi
  THEN GroupStep(st, fs[lo], silence_thresh, min_quiet_frames, purity)
  ELSE LET mid == (lo + hi) \div 2
           half == GroupScan(fs, lo, mid, st, silence_thresh,
                             min_quiet_frames, purity)
       IN IF half.quiet_regions = <<>>
          THEN GroupScan(fs, mid + 1, hi, half, silence_thresh,
                         min_quiet_frames, purity)
          ELSE GroupScan(fs, mid + 1, hi, half, silence_thresh,
                         min_quiet_frames, purity)

\* The handling of the last region without the test on its length.
GroupLastAnyLength(st, fs, min_quiet_frames, purity) ==
  IF /\ st.current_region_start # None
     /\ Qualifies(st.current_region_frames, purity)
  THEN Append(st.quiet_regions,
              <<st.current_region_start, fs[Len(fs)][1] + frame_duration>>)
  ELSE st.quiet_regions

\* The handling of a region still tracked when the frames end.
GroupLast(st, fs, min_quiet_frames, purity) ==
  IF /\ st.current_region_start # None
     /\ Len(st.current_region_frames) >= min_quiet_frames
     /\ Qualifies(st.current_region_frames, purity)
  THEN Append(st.quiet_regions,
              <<st.current_region_start, fs[Len(fs)][1] + frame_duration>>)
  ELSE st.quiet_regions

group_quiet_regions(fs, silence_thresh, min_quiet_frames, purity) ==
  IF fs = <<>> THEN <<>>
  ELSE GroupLast(GroupScan(fs, 1, Len(fs), GroupInit, silence_thresh,
                           min_quiet_frames, purity),
                 fs, min_quiet_frames, purity)

\* Padding without the clamp to the audio.
PadOneNoClamp(region, padding, duration) ==
  <<region[1] - padding, region[2] + padding>>

\* Padding with the sign of the padding turned around.
PadOneContract(region, padding, duration) ==
  <<Max(0, region[1] + padding), Min(duration, region[2] - padding)>>

\* Padding of one region; positive padding expands it.
PadOne(region, padding, duration) ==
  <<Max(0, region[1] - padding), Min(duration, region[2] + padding)>>

\* A padding loop that keeps a region whose padded end equals its start.
RECURSIVE PadRegionsGeq(_, _, _)
PadRegionsGeq(regions, padding, duration) ==
  IF regions = <<>> THEN <<>>
  ELSE LET p == PadOne(Head(regions), padding, duration)
           rest == PadRegionsGeq(Tail(regions), padding, duration)
       IN IF p[2] >= p[1] THEN <<p>> \o rest ELSE rest

\* The padding loop: regions left empty by the padding are dropped.
RECURSIVE PadRegions(_, _, _)
PadRegions(regions, padding, duration) ==
  IF regions = <<>> THEN <<>>
  ELSE LET p == PadOne(Head(regions), padding, duration)
           rest == PadRegions(Tail(regions), padding, duration)
       IN IF p[2] > p[1] THEN <<p>> \o rest ELSE rest

\* "Merge if regions overlap or are very close (within 100ms)".
merge_tolerance == 100

\* One iteration of the merge loop of apply_padding_to_regions.
MergeStep(merged, current) ==
  LET last == merged[Len(merged)]
  IN IF current[1] <= last[2] + merge_tolerance
     THEN [merged EXCEPT ![Len(merged)] = <<last[1], Max(last[2], current[2])>>]
     ELSE Append(merged, current)

\* A merge loop that takes the region after a merged one as it is.
RECURSIVE MergeLoopSkip(_, _)
MergeLoopSkip(merged, rest) ==
  IF rest = <<>> THEN merged
  ELSE LET next == MergeStep(merged, Head(rest))
       IN IF Len(next) = Len(merged) /\ Len(rest) > 1
          THEN MergeLoopSkip(Append(next, rest[2]), Tail(Tail(rest)))
          ELSE MergeLoopSkip(next, Tail(rest))

\* The merge loop over padded_regions[1:].
RECURSIVE MergeLoop(_, _)
MergeLoop(merged, rest) ==
  IF rest = <<>> THEN merged
  ELSE MergeLoop(MergeStep(merged, Head(rest)), Tail(rest))

apply_padding_to_regions(regions, padding, duration, merge_nearby) ==
  IF regions = <<>> THEN <<>>
  ELSE LET padded == PadRegions(regions, padding, duration)
       IN IF ~merge_nearby \/ Len(padded) <= 1 THEN padded
          ELSE LET sorted == Sort(padded)
               IN MergeLoop(<<Head(sorted)>>, Tail(sorted))

\* min_quiet_frames = max(1, int(min_silence_len_ms / frame_size_ms)).
MinQuietFrames(min_silence_len) == Max(1, min_silence_len \div frame_duration)

\* quiet_frame_threshold=0.8 passed by main, as <<num, den>>.
MainPurity == <<4, 5>>

\* A value in milliseconds printed in seconds: ms / 1000.0.
ToSeconds(ms) == <<ms, 1000>>

RECURSIVE ToSecondsList(_)
ToSecondsList(regions) ==
  IF regions = <<>> THEN <<>>
  ELSE <<<<ToSeconds(Head(regions)[1]), ToSeconds(Head(regions)[2])>>>>
         \o ToSecondsList(Tail(regions))

(***************************************************************************)
(* silence_detector_energy.py                                              *)
(***************************************************************************)
\* window_size passed to smooth_energy_profile by main.  Energy levels are
\* kept in units of 1/window_size dB, which makes the average exact.
window_size == 3

\* Hop between energy frames: "frame_duration_ms = 200 * 0.5".
frame_duration_ms == 100

\* uniform_filter1d(db_values, size=3, mode='nearest') at index i.
SmoothAt(levels, i) ==
  LET n == Len(levels)
      a == levels[Max(1, i - 1)][2]
      b == levels[i][2]
      c == levels[Min(n, i + 1)][2]
  IN <<levels[i][1], (a + b + c) \div window_size>>

smooth_energy_profile(levels) ==
  IF Len(levels) < window_size THEN levels
  ELSE [i \in 1..Len(levels) |-> SmoothAt(levels, i)]

RECURSIVE SumLevels(_, _, _)
SumLevels(levels, lo, hi) ==
  IF lo > hi THEN 0
  ELSE IF lo = hi THEN levels[lo][2]
  ELSE SumLevels(levels, lo, (lo + hi) \div 2)
         + SumLevels(levels, (lo + hi) \div 2 + 1, hi)

RECURSIVE SumSquares(_, _, _)
SumSquares(levels, lo, hi) ==
  IF lo > hi THEN 0
  ELSE IF lo = hi THEN levels[lo][2] * levels[lo][2]
  ELSE SumSquares(levels, lo, (lo + hi) \div 2)
         + SumSquares(levels, (lo + hi) \div 2 + 1, hi)

\* What np.mean and np.std are computed from: the number of levels, their
\* sum and the sum of their squares.
LevelStats(levels) ==
  [n |-> Len(levels), S |-> SumLevels(levels, 1, Len(levels)),
   Q |-> SumSquares(levels, 1, Len(levels))]

\* db_level < mean_db - 2.0 * std_db, with the mean S/n and the population
\* standard deviation sqrt(Q/n - (S/n)^2): n*db < S - 2*sqrt(n*Q - S*S).
BelowMeanMinus2Std(db_level, stats) ==
  LET d == stats.S - stats.n * db_level
  IN d > 0 /\ 4 * (stats.n * stats.Q - stats.S * stats.S) < d * d

\* "Don't go too low": dynamic_threshold >= base_threshold_db - 15.
adaptive_margin_db == 15

\* More than this many levels are needed for the adaptive threshold.
adaptive_min_levels == 20

\* db_level < dynamic_threshold without the "don't go too low" line.
BelowDynamicNoFloor(db_level, stats, base_threshold_db, adaptive) ==
  LET base == base_threshold_db * window_size
  IN IF adaptive /\ stats.n > adaptive_min_levels
     THEN db_level < base /\ BelowMeanMinus2Std(db_level, stats)
     ELSE db_level < base

\* db_level < dynamic_threshold, where dynamic_threshold is
\* max(min(base, mean - 2*std), base - 15) when the adaptive branch runs
\* and base otherwise.  base_threshold_db is in dB.
BelowDynamic(db_level, stats, base_threshold_db, adaptive) ==
  LET base == base_threshold_db * window_size
  IN IF adaptive /\ stats.n > adaptive_min_levels
     THEN \/ db_level < base /\ BelowMeanMinus2Std(db_level, stats)
          \/ db_level < base - adaptive_margin_db * window_size
     ELSE db_level < base

DetectInit == [current_start |-> None, quiet_regions |-> <<>>]

\* One iteration of the loop over energy_levels.
DetectStep(st, frame, is_quiet, min_region_ms) ==
  LET timestamp_ms == frame[1]
  IN IF is_quiet /\ st.current_start = None
     THEN [st EXCEPT !.current_start = timestamp_ms]
     ELSE IF ~is_quiet /\ st.current_start # None
     THEN [current_start |-> None,
           quiet_regions |->
             IF timestamp_ms - st.current_start >= min_region_ms
             THEN Append(st.quiet_regions, <<st.current_start, timestamp_ms>>)
             ELSE st.quiet_regions]
     ELSE st

\* The loop over levels lo..hi, entered in state st; quiet[i] is is_quiet
\* of level i.
RECURSIVE DetectScan(_, _, _, _, _, _)
DetectScan(levels, quiet, lo, hi, st, min_region_ms) ==
  IF lo > hi THEN st
  ELSE IF lo = hi
  THEN DetectStep(st, levels[lo], quiet[lo], min_region_ms)
  ELSE LET mid == (lo + hi) \div 2
           half == DetectScan(levels, quiet, lo, mid, st, min_region_ms)
       IN IF half.quiet_regions = <<>>
          THEN DetectScan(levels, quiet, mid + 1, hi, half, min_region_ms)
          ELSE DetectScan(levels, quiet, mid + 1, hi, half, min_region_ms)

\* is_quiet of every level, the statistics computed once before the loop.
QuietFlags(levels, base_threshold_db, adaptive) ==
  LET stats == LevelStats(levels)
  IN [i \in 1..Len(levels) |->
        BelowDynamic(levels[i][2], stats, base_threshold_db, adaptive)]

\* The region open at the end closed at the last timestamp itself.
DetectLastNoFrame(st, levels, min_region_ms) ==
  LET final_timestamp == levels[Len(levels)][1]
  IN IF /\ st.current_start # None
        /\ final_timestamp - st.current_start >= min_region_ms
     THEN Append(st.quiet_regions, <<st.current_start, final_timestamp>>)
     ELSE st.quiet_regions

\* "Handle region that extends to end of audio".
DetectLast(st, levels, min_region_ms) ==
  LET final_timestamp == levels[Len(levels)][1] + frame_duration_ms
  IN IF /\ st.current_start # None
        /\ final_timestamp - st.current_start >= min_region_ms
     THEN Append(st.quiet_regions, <<st.current_start, final_timestamp>>)
     ELSE st.quiet_regions

detect_quiet_regions_adaptive(levels, base_threshold_db, min_region_ms, adaptive) ==
  IF levels = <<>> THEN <<>>
  ELSE DetectLast(DetectScan(levels,
                             QuietFlags(levels, base_threshold_db, adaptive),
                             1, Len(levels), DetectInit, min_region_ms),
                  levels, min_region_ms)

\* merge_gap_ms passed to merge_nearby_regions by main.
merge_gap_ms == 2000

\* One iteration of the loop of merge_nearby_regions.
NearbyStep(merged, current, merge_gap) ==
  LET last == merged[Len(merged)]
  IN IF current[1] - last[2] <= merge_gap
     THEN [merged EXCEPT ![Len(merged)] = <<last[1], current[2]>>]
     ELSE Append(merged, current)

RECURSIVE NearbyLoop(_, _, _)
NearbyLoop(merged, rest, merge_gap) ==
  IF rest = <<>> THEN merged
  ELSE NearbyLoop(NearbyStep(merged, Head(rest), merge_gap), Tail(rest),
                  merge_gap)

merge_nearby_regions(regions, merge_gap) ==
  IF Len(regions) <= 1 THEN regions
  ELSE NearbyLoop(<<Head(regions)>>, Tail(regions), merge_gap)

\* min_region_duration = max(min_silence_len_ms, 1000).
min_region_floor == 1000

\* The minimum duration of a region without the floor of 1000 ms.
MinRegionDurationNoFloor(min_silence_len) == min_silence_len

MinRegionDuration(min_silence_len) == Max(min_silence_len, min_region_floor)

\* "Filter out very short regions (less than 0.5 seconds after merging)".
min_final_ms == 500

FilterShort(regions) ==
  SelectSeq(regions, LAMBDA r : r[2] - r[1] >= min_final_ms)

(***************************************************************************)
(* silence_detector_vad.py                                                 *)
(***************************************************************************)
\* target_rates of resample_for_vad, in the order of the list.
target_rates == <<48000, 32000, 16000, 8000>>

\* "Fallback to 16kHz".
fallback_rate == 16000

\* The loop over target_rates: the first rate of the list that is at least
\* the current rate, and the fallback when there is none.
RECURSIVE FirstAtLeast(_, _)
FirstAtLeast(rates, rate) ==
  IF rates = <<>> THEN fallback_rate
  ELSE IF Head(rates) >= rate THEN Head(rates)
  ELSE FirstAtLeast(Tail(rates), rate)

\* The frame rate of the audio returned by resample_for_vad.
resample_for_vad(rate) ==
  IF \E i \in 1..Len(target_rates) : target_rates[i] = rate THEN rate
  ELSE FirstAtLeast(target_rates, rate)

\* frame_duration_ms=30 passed by main to vad_analysis and
\* find_non_speech_regions.
vad_frame_ms == 30

VadMinFrames(min_silence_ms) == Max(1, min_silence_ms \div vad_frame_ms)

NonSpeechInit ==
  [current_start |-> None, consecutive_non_speech |-> 0,
   non_speech_regions |-> <<>>]

\* The loop body with a speech frame that ends only a run long enough to be
\* emitted.
NonSpeechStepTolerant(st, frame, min_frames) ==
  LET timestamp_ms == frame[1]
      is_speech == frame[2]
  IN IF ~is_speech
     THEN IF st.current_start = None
          THEN [st EXCEPT !.current_start = timestamp_ms,
                          !.consecutive_non_speech = 1]
          ELSE [st EXCEPT !.consecutive_non_speech = @ + 1]
     ELSE IF st.current_start # None /\ st.consecutive_non_speech >= min_frames
     THEN [current_start |-> None, consecutive_non_speech |-> 0,
           non_speech_regions |->
             Append(st.non_speech_regions, <<st.current_start, timestamp_ms>>)]
     ELSE st

\* One iteration of the loop over speech_frames.
NonSpeechStep(st, frame, min_frames) ==
  LET timestamp_ms == frame[1]
      is_speech == frame[2]
  IN IF ~is_speech
     THEN IF st.current_start = None
          THEN [st EXCEPT !.current_start = timestamp_ms,
                          !.consecutive_non_speech = 1]
          ELSE [st EXCEPT !.consecutive_non_speech = @ + 1]
     ELSE [current_start |-> None, consecutive_non_speech |-> 0,
           non_speech_regions |->
             IF /\ st.current_start # None
                /\ st.consecutive_non_speech >= min_frames
             THEN Append(st.non_speech_regions,
                         <<st.current_start, timestamp_ms>>)
             ELSE st.non_speech_regions]

RECURSIVE NonSpeechScan(_, _, _, _, _)
NonSpeechScan(fs, lo, hi, st, min_frames) ==
  IF lo > hi THEN st
  ELSE IF lo = hi THEN NonSpeechStep(st, fs[lo], min_frames)
  ELSE LET mid == (lo + hi) \div 2
           half == NonSpeechScan(fs, lo, mid, st, min_frames)
       IN IF half.non_speech_regions = <<>>
          THEN NonSpeechScan(fs, mid + 1, hi, half, min_frames)
          ELSE NonSpeechScan(fs, mid + 1, hi, half, min_frames)

\* The final region closed at the last timestamp itself.
NonSpeechLastNoFrame(st, fs, min_frames) ==
  IF st.current_start # None /\ st.consecutive_non_speech >= min_frames
  THEN Append(st.non_speech_regions, <<st.current_start, fs[Len(fs)][1]>>)
  ELSE st.non_speech_regions

\* "Handle final region if audio ends with non-speech".
NonSpeechLast(st, fs, min_frames) ==
  IF st.current_start # None /\ st.consecutive_non_speech >= min_frames
  THEN Append(st.non_speech_regions,
              <<st.current_start, fs[Len(fs)][1] + vad_frame_ms>>)
  ELSE st.non_speech_regions

find_non_speech_regions(fs, min_silence_ms) ==
  IF fs = <<>> THEN <<>>
  ELSE NonSpeechLast(NonSpeechScan(fs, 1, Len(fs), NonSpeechInit,
                                   VadMinFrames(min_silence_ms)),
                     fs, VadMinFrames(min_silence_ms))

(***************************************************************************)
(* vad_cutter.py (times in thousandths of a second)                        *)
(***************************************************************************)
\* 0.1 s: the shortest gap kept, and the shortest padded region kept.
min_gap == 100

\* 0.5 s: "Merge if regions are very close (within 0.5s)".
cutter_merge_gap == 500

\* The gaps between speech segments, a gap of exactly 0.1 s kept too.
RECURSIVE GapsBetweenGeq(_, _)
GapsBetweenGeq(ts, i) ==
  IF i > Len(ts) - 1 THEN <<>>
  ELSE LET gap_start == ts[i][2]
           gap_end == ts[i + 1][1]
       IN (IF gap_end - gap_start >= min_gap
           THEN <<<<gap_start, gap_end>>>> ELSE <<>>)
          \o GapsBetweenGeq(ts, i + 1)

\* Silence between speech segments i and i+1, for i from `i` on.
RECURSIVE GapsBetween(_, _)
GapsBetween(ts, i) ==
  IF i > Len(ts) - 1 THEN <<>>
  ELSE LET gap_start == ts[i][2]
           gap_end == ts[i + 1][1]
       IN (IF gap_end - gap_start > min_gap
           THEN <<<<gap_start, gap_end>>>> ELSE <<>>)
          \o GapsBetween(ts, i + 1)

\* Silence regions that take the whole audio when there is no speech.
SilenceRegionsWhole(ts, total_duration) ==
  IF ts = <<>>
  THEN (IF total_duration > min_gap THEN <<<<0, total_duration>>>> ELSE <<>>)
  ELSE (IF ts[1][1] > min_gap THEN <<<<0, ts[1][1]>>>> ELSE <<>>)
       \o GapsBetween(ts, 1)
       \o (IF ts[Len(ts)][2] < total_duration - min_gap
           THEN <<<<ts[Len(ts)][2], total_duration>>>> ELSE <<>>)

\* "Generate silence regions (what we want to remove)".
SilenceRegions(ts, total_duration) ==
  IF ts = <<>> THEN <<>>
  ELSE (IF ts[1][1] > min_gap THEN <<<<0, ts[1][1]>>>> ELSE <<>>)
       \o GapsBetween(ts, 1)
       \o (IF ts[Len(ts)][2] < total_duration - min_gap
           THEN <<<<ts[Len(ts)][2], total_duration>>>> ELSE <<>>)

\* The padding loop of cut_silences_with_vad.
RECURSIVE CutterPad(_, _, _)
CutterPad(regions, padding_s, total_duration) ==
  IF regions = <<>> THEN <<>>
  ELSE LET p == PadOne(Head(regions), padding_s, total_duration)
           rest == CutterPad(Tail(regions), padding_s, total_duration)
       IN IF p[2] - p[1] > min_gap THEN <<p>> \o rest ELSE rest

\* One iteration of the merge loop of cut_silences_with_vad.
CutterMergeStep(merged, current) ==
  LET last == merged[Len(merged)]
  IN IF current[1] - last[2] < cutter_merge_gap
     THEN [merged EXCEPT ![Len(merged)] = <<last[1], Max(last[2], current[2])>>]
     ELSE Append(merged, current)

RECURSIVE CutterMergeLoop(_, _)
CutterMergeLoop(merged, rest) ==
  IF rest = <<>> THEN merged
  ELSE CutterMergeLoop(CutterMergeStep(merged, Head(rest)), Tail(rest))

CutterMerge(padded) ==
  IF Len(padded) > 1
  THEN CutterMergeLoop(<<Head(padded)>>, Tail(padded))
  ELSE padded

(***************************************************************************)
(* Inputs.                                                                 *)
(***************************************************************************)
\* Run lengths of a profile: at most MaxRuns runs, each of a length in L.
RunSeqs(L) == UNION {[1..k -> L] : k \in 0..MaxRuns}

\* The profile of runs `runs`, alternating between level a (first) and b.
RECURSIVE Expand(_, _, _)
Expand(runs, a, b) ==
  IF runs = <<>> THEN <<>>
  ELSE [i \in 1..Head(runs) |-> a] \o Expand(Tail(runs), b, a)

\* Frames `levels` with the timestamps of a hop of `hop` ms.
Stamp(levels, hop) == [i \in 1..Len(levels) |-> <<(i - 1) * hop, levels[i]>>]

Profiles(L, a, b, hop) ==
  {Stamp(Expand(r, a, b), hop) : r \in RunSeqs(L)}
    \cup {Stamp(Expand(r, b, a), hop) : r \in RunSeqs(L)}

\* analyze_audio_levels cuts the samples into 20 ms frames, the last one
\* possibly shorter: n frames come from an audio longer than (n-1)*20 ms
\* and at most n*20 ms long.
StrictDurations(n) ==
  IF n = 0 THEN {0}
  ELSE {(n - 1) * frame_duration + t : t \in {frame_duration \div 2, frame_duration}}

\* vad_analysis cuts the samples into 30 ms frames the same way.
VadDurations(n) ==
  IF n = 0 THEN {0}
  ELSE {(n - 1) * vad_frame_ms + t : t \in {vad_frame_ms \div 2, vad_frame_ms}}

\* calculate_energy_levels measures 200 ms windows every 100 ms and drops
\* the windows that run past the end: n frames come from an audio longer
\* than (n+1)*100 ms and at most (n+2)*100 ms long.
EnergyDurations(n) ==
  {(n + 1) * frame_duration_ms + t
     : t \in {frame_duration_ms \div 2, frame_duration_ms}}

\* The threshold given on the command line, in dB.
Threshold == -40

\* Levels of the generated profiles: a quiet level, and a loud level that
\* sits exactly on the threshold.
QuietDb == -60

LoudDb == -40

\* Scenario levels: -70 dB (quiet) and -10 dB (loud).
ScenarioQuietDb == -70

ScenarioLoudDb == -10

\* Longest all-quiet profile, in frames.
MaxQuiet == 12

StrictProfiles ==
  Profiles(1..MaxRunLen, QuietDb, LoudDb, frame_duration)
    \cup {Stamp([i \in 1..n |-> QuietDb], frame_duration) : n \in 1..MaxQuiet}

\* 10 s of 20 ms frames, seconds 2-5 quiet and the rest loud.
ScenarioB ==
  Stamp(Expand(<<100, 150, 250>>, ScenarioLoudDb, ScenarioQuietDb),
        frame_duration)

VadProfiles == Profiles(1..MaxRunLen, FALSE, TRUE, vad_frame_ms)

\* Run lengths of the energy profiles, in 100 ms hops: around the 1000 ms
\* minimum region and the 2000 ms merge gap.
EnergyRunLens == {1, 11, 18, 19}

EnergyProfiles ==
  Profiles(EnergyRunLens, QuietDb * window_size, LoudDb * window_size,
           frame_duration_ms)

\* 10 s at a constant -10 dB: 98 windows of 200 ms every 100 ms.
ScenarioA ==
  Stamp(Expand(<<98>>, ScenarioLoudDb * window_size,
               ScenarioQuietDb * window_size), frame_duration_ms)

\* Grid of the speech timestamps: get_speech_timestamps(return_seconds=True)
\* rounds to 0.1 s.
Tick == 100

\* Last grid point of a generated speech list, and most speech segments.
MaxTick == 10

MaxSpeech == 2

\* Region lists handed to a merge pass on its own: at most MaxRegions
\* regions, with bounds on the grid points 0..MaxGrid.
MaxGrid == 4

MaxRegions == 3

\* Longest buffer handed to a profiler on its own, in samples.
MaxSamples == 450

\* Highest frame rate handed to resample_for_vad on its own, in kHz.
MaxRateKHz == 100

\* Most progress lines of ffmpeg read by frame_decimator, and the highest
\* frame number and time in seconds they report.
MaxLines == 3

MaxFrame == 2

MaxTime == 2

\* Sorted, non-overlapping speech segments <<start, end>> with start < end,
\* k of them, the first starting at grid point `from` or later.
RECURSIVE SpeechLists(_, _)
SpeechLists(k, from) ==
  IF k = 0 THEN {<<>>}
  ELSE UNION {{<<<<a * Tick, b * Tick>>>> \o rest : rest \in SpeechLists(k - 1, b)}
                : <<a, b>> \in {x \in (from..MaxTick) \X (from..MaxTick) : x[1] < x[2]}}

SpeechInputs == UNION {SpeechLists(k, 0) : k \in 0..MaxSpeech}

\* Speech [[1.0, 3.0], [4.0, 6.0]] in 7.0 s of audio.
ScenarioC == <<<<1000, 3000>>, <<4000, 6000>>>>

LastEnd(ts) == IF ts = <<>> THEN 0 ELSE ts[Len(ts)][2]

(***************************************************************************)
(* The pipelines.                                                          *)
(***************************************************************************)
\* No video has been probed and ffmpeg has not run.
NoVideo ==
  /\ original_frames = None
  /\ video_frame_rate = None
  /\ video_duration = None
  /\ last_reported_frame = None
  /\ last_progress_time = None
  /\ return_code = None
  /\ lines_read = 0

Blank ==
  /\ stage = "start"
  /\ smoothed_levels = <<>>
  /\ quiet_regions = <<>>
  /\ merged_regions = <<>>
  /\ filtered_regions = <<>>
  /\ padded_regions = <<>>
  /\ final_regions = <<>>
  /\ output_regions = <<>>
  /\ stdout = <<>>
  /\ error_printed = FALSE
  /\ exit_status = None
  /\ current_rate = None
  /\ vad_rate = None
  /\ NoVideo

InitStrict ==
  /\ pipeline = "strict"
  /\ \/ /\ frames \in StrictProfiles
        /\ min_silence_len_ms \in {30, 40}
        /\ padding_ms \in {-20, 0, 60}
        /\ audio_duration \in StrictDurations(Len(frames))
     \/ /\ frames = ScenarioB
        /\ min_silence_len_ms = 500
        /\ padding_ms \in {-100, 100}
        /\ audio_duration = 10000
  /\ silence_thresh_db = Threshold
  /\ speech_timestamps = <<>>
  /\ Blank

InitEnergy ==
  /\ pipeline = "energy"
  /\ \/ /\ frames \in EnergyProfiles
        /\ min_silence_len_ms \in {500, 1200}
        /\ padding_ms \in {-100, 0, 100}
        /\ audio_duration \in EnergyDurations(Len(frames))
     \/ /\ frames = ScenarioA
        /\ min_silence_len_ms = 500
        /\ padding_ms = 100
        /\ audio_duration = 10000
  /\ silence_thresh_db = Threshold
  /\ speech_timestamps = <<>>
  /\ Blank

InitVad ==
  /\ pipeline = "vad"
  /\ frames \in VadProfiles
  /\ min_silence_len_ms \in {20, 30, 70}
  /\ padding_ms \in {-30, 0, 100}
  /\ audio_duration \in VadDurations(Len(frames))
  /\ silence_thresh_db = Threshold
  /\ speech_timestamps = <<>>
  /\ Blank

InitCutter ==
  /\ pipeline = "cutter"
  /\ \/ /\ speech_timestamps \in SpeechInputs
        /\ audio_duration \in {d * Tick : d \in 0..MaxTick}
        /\ audio_duration >= LastEnd(speech_timestamps)
        /\ padding_ms \in {-50, 0, 100}
     \/ /\ speech_timestamps = ScenarioC
        /\ audio_duration = 7000
        /\ padding_ms \in {0, 100}
  /\ min_silence_len_ms = 200
  /\ frames = <<>>
  /\ silence_thresh_db = Threshold
  /\ Blank

Init == InitStrict \/ InitEnergy \/ InitVad \/ InitCutter

inputs == <<pipeline, frames, speech_timestamps, silence_thresh_db,
            min_silence_len_ms, padding_ms, audio_duration>>

\* What the process has written to standard output ("blank" for an empty
\* line, "json" for the list of intervals), whether the except handler has
\* printed its error message to standard error, and the exit status.
console == <<stdout, error_printed, exit_status>>

\* frame_decimator: what ffprobe reported of the input, the progress
\* tracking of process_video, the return code of ffmpeg and the number of
\* ffmpeg lines read so far.
video == <<original_frames, video_frame_rate, video_duration,
           last_reported_frame, last_progress_time, return_code, lines_read>>

\* The frame rate of the audio handed to resample_for_vad and of the audio
\* it returns, and the state of frame_decimator.
media == <<current_rate, vad_rate, video>>

\* The except handler of an entry point: the message to stderr, sys.exit(1).
Failed ==
  /\ stage' = "failed"
  /\ error_printed' = TRUE
  /\ exit_status' = 1
  /\ UNCHANGED stdout

\* print(json_output) and the normal end of the process.
Printed ==
  /\ stage' = "done"
  /\ stdout' = Append(stdout, "json")
  /\ exit_status' = 0
  /\ UNCHANGED error_printed

\* silence_detector.main: group_quiet_regions.
StrictGroup ==
  /\ pipeline = "strict" /\ stage = "start"
  /\ quiet_regions' =
       group_quiet_regions(frames, silence_thresh_db,
                           MinQuietFrames(min_silence_len_ms), MainPurity)
  /\ stage' = "detected"
  /\ UNCHANGED <<inputs, media, console, smoothed_levels, merged_regions, filtered_regions,
                 padded_regions, final_regions, output_regions>>

\* silence_detector.main: apply_padding_to_regions(..., merge_nearby=True).
StrictFinalize ==
  /\ pipeline = "strict" /\ stage = "detected"
  /\ final_regions' =
       apply_padding_to_regions(quiet_regions, padding_ms, audio_duration, TRUE)
  /\ stage' = "final"
  /\ UNCHANGED <<inputs, media, console, smoothed_levels, quiet_regions, merged_regions,
                 filtered_regions, padded_regions, output_regions>>

\* silence_detector_energy.main: smooth_energy_profile.
EnergySmooth ==
  /\ pipeline = "energy" /\ stage = "start"
  /\ smoothed_levels' = smooth_energy_profile(frames)
  /\ stage' = "smoothed"
  /\ UNCHANGED <<inputs, media, console, quiet_regions, merged_regions, filtered_regions,
                 padded_regions, final_regions, output_regions>>

\* silence_detector_energy.main: detect_quiet_regions_adaptive(adaptive=True).
EnergyDetect ==
  /\ pipeline = "energy" /\ stage = "smoothed"
  /\ quiet_regions' =
       detect_quiet_regions_adaptive(smoothed_levels, silence_thresh_db,
                                     MinRegionDuration(min_silence_len_ms),
                                     TRUE)
  /\ stage' = "detected"
  /\ UNCHANGED <<inputs, media, console, smoothed_levels, merged_regions, filtered_regions,
                 padded_regions, final_regions, output_regions>>

\* silence_detector_energy.main: merge_nearby_regions(merge_gap_ms=2000).
EnergyMerge ==
  /\ pipeline = "energy" /\ stage = "detected"
  /\ merged_regions' = merge_nearby_regions(quiet_regions, merge_gap_ms)
  /\ stage' = "merged"
  /\ UNCHANGED <<inputs, media, console, smoothed_levels, quiet_regions, filtered_regions,
                 padded_regions, final_regions, output_regions>>

\* silence_detector_energy.main: the filter of short regions.
EnergyFilter ==
  /\ pipeline = "energy" /\ stage = "merged"
  /\ filtered_regions' = FilterShort(merged_regions)
  /\ stage' = "filtered"
  /\ UNCHANGED <<inputs, media, console, smoothed_levels, quiet_regions, merged_regions,
                 padded_regions, final_regions, output_regions>>

\* silence_detector_energy.main: the padding of the filtered regions.
EnergyPad ==
  /\ pipeline = "energy" /\ stage = "filtered"
  /\ final_regions' = PadRegions(filtered_regions, padding_ms, audio_duration)
  /\ stage' = "final"
  /\ UNCHANGED <<inputs, media, console, smoothed_levels, quiet_regions, merged_regions,
                 filtered_regions, padded_regions, output_regions>>

\* silence_detector_vad.main: find_non_speech_regions.
VadFind ==
  /\ pipeline = "vad" /\ stage = "start"
  /\ quiet_regions' = find_non_speech_regions(frames, min_silence_len_ms)
  /\ stage' = "detected"
  /\ UNCHANGED <<inputs, media, console, smoothed_levels, merged_regions, filtered_regions,
                 padded_regions, final_regions, output_regions>>

\* silence_detector_vad.main: the padding of the non-speech regions.
VadPad ==
  /\ pipeline = "vad" /\ stage = "detected"
  /\ final_regions' = PadRegions(quiet_regions, padding_ms, audio_duration)
  /\ stage' = "final"
  /\ UNCHANGED <<inputs, media, console, smoothed_levels, quiet_regions, merged_regions,
                 filtered_regions, padded_regions, output_regions>>

\* The three detectors' "Convert to seconds" loop and the JSON output.
\* silence_detector_energy and silence_detector_vad first print the share
\* of the audio that is cut, total_duration_cut / audio_duration_ms, which
\* raises ZeroDivisionError for an audio of 0 ms.
EmitSeconds ==
  /\ pipeline \in {"strict", "energy", "vad"} /\ stage = "final"
  /\ output_regions' = ToSecondsList(final_regions)
  /\ IF pipeline \in {"energy", "vad"} /\ audio_duration = 0
     THEN Failed
     ELSE Printed
  /\ UNCHANGED <<inputs, media, smoothed_levels, quiet_regions, merged_regions,
                 filtered_regions, padded_regions, final_regions>>

\* vad_cutter: the model and the audio are loaded, the file information is
\* printed to stderr, then a bare print() writes an empty line to stdout.
CutterLoad ==
  /\ pipeline = "cutter" /\ stage = "start"
  /\ stage' = "loaded"
  /\ stdout' = Append(stdout, "blank")
  /\ UNCHANGED <<inputs, media, error_printed, exit_status, smoothed_levels,
                 quiet_regions, merged_regions, filtered_regions,
                 padded_regions, final_regions, output_regions>>

\* cut_silences_with_vad: the silence regions around the speech segments.
CutterInvert ==
  /\ pipeline = "cutter" /\ stage = "loaded"
  /\ quiet_regions' = SilenceRegions(speech_timestamps, audio_duration)
  /\ stage' = "detected"
  /\ UNCHANGED <<inputs, media, console, smoothed_levels, merged_regions, filtered_regions,
                 padded_regions, final_regions, output_regions>>

\* cut_silences_with_vad: the padding loop (padding_s = padding_ms / 1000.0).
CutterPadding ==
  /\ pipeline = "cutter" /\ stage = "detected"
  /\ padded_regions' = CutterPad(quiet_regions, padding_ms, audio_duration)
  /\ stage' = "padded"
  /\ UNCHANGED <<inputs, media, console, smoothed_levels, quiet_regions, merged_regions,
                 filtered_regions, final_regions, output_regions>>

\* cut_silences_with_vad: the merge loop.
CutterMerging ==
  /\ pipeline = "cutter" /\ stage = "padded"
  /\ final_regions' = CutterMerge(padded_regions)
  /\ stage' = "final"
  /\ UNCHANGED <<inputs, media, console, smoothed_levels, quiet_regions, merged_regions,
                 filtered_regions, padded_regions, output_regions>>

\* cut_silences_with_vad: the share of the audio that is cut,
\* total_cut_duration / total_duration, which raises ZeroDivisionError for
\* an audio of no samples, then print(json.dumps(padded_regions)).
CutterEmit ==
  /\ pipeline = "cutter" /\ stage = "final"
  /\ IF audio_duration = 0
     THEN Failed /\ UNCHANGED output_regions
     ELSE Printed /\ output_regions' = ToSecondsList(final_regions)
  /\ UNCHANGED <<inputs, media, smoothed_levels, quiet_regions, merged_regions,
                 filtered_regions, padded_regions, final_regions>>

\* An exception raised by a step of a pipeline (the file cannot be read, a
\* library call fails) and caught by the except handler of the entry point.
Fail ==
  /\ pipeline \in {"strict", "energy", "vad", "cutter"}
  /\ stage \notin {"done", "failed"}
  /\ Failed
  /\ UNCHANGED <<inputs, media, smoothed_levels, quiet_regions, merged_regions,
                 filtered_regions, padded_regions, final_regions,
                 output_regions>>

Next ==
  \/ StrictGroup
  \/ StrictFinalize
  \/ EnergySmooth
  \/ EnergyDetect
  \/ EnergyMerge
  \/ EnergyFilter
  \/ EnergyPad
  \/ VadFind
  \/ VadPad
  \/ EmitSeconds
  \/ CutterLoad
  \/ CutterInvert
  \/ CutterPadding
  \/ CutterMerging
  \/ CutterEmit
  \/ Fail

Spec == Init /\ [][Next]_vars

\* Each pipeline on its own.
NextStrict == StrictGroup \/ StrictFinalize \/ EmitSeconds \/ Fail

SpecStrict == InitStrict /\ [][NextStrict]_vars

NextEnergy ==
  \/ EnergySmooth
  \/ EnergyDetect
  \/ EnergyMerge
  \/ EnergyFilter
  \/ EnergyPad
  \/ EmitSeconds
  \/ Fail

SpecEnergy == InitEnergy /\ [][NextEnergy]_vars

NextVad == VadFind \/ VadPad \/ EmitSeconds \/ Fail

SpecVad == InitVad /\ [][NextVad]_vars

NextCutter ==
  \/ CutterLoad
  \/ CutterInvert
  \/ CutterPadding
  \/ CutterMerging
  \/ CutterEmit
  \/ Fail

SpecCutter == InitCutter /\ [][NextCutter]_vars

(***************************************************************************)
(* The merge passes on their own, on any list of regions.                  *)
(***************************************************************************)
\* "energy_merge_negative_gap" is merge_nearby_regions called with a
\* negative merge_gap_ms.
MergePasses ==
  {"strict_merge", "energy_merge", "energy_merge_negative_gap", "cutter_merge"}

PassTolerance(p) ==
  IF p = "strict_merge" THEN merge_tolerance
  ELSE IF p = "energy_merge" THEN merge_gap_ms
  ELSE IF p = "energy_merge_negative_gap" THEN 0 - merge_gap_ms
  ELSE cutter_merge_gap

\* The step of the grid the regions of a pass are drawn from.
PassUnit(p) ==
  IF PassTolerance(p) < 0 THEN 0 - PassTolerance(p) ELSE PassTolerance(p)

\* Regions <<start, end>> with start < end on a grid of step `unit`, and the
\* lists of them in any order, nested and overlapping ones included.
GridRegions(unit) ==
  {<<a * unit, b * unit>> : <<a, b>> \in {x \in (0..MaxGrid) \X (0..MaxGrid) : x[1] < x[2]}}

RegionLists(unit) ==
  UNION {[1..k -> GridRegions(unit)] : k \in 0..MaxRegions}

\* apply_padding_to_regions(regions, 0, duration, merge_nearby=True),
\* merge_nearby_regions(regions, 2000), or the merge of cut_silences_with_vad.
MergePass(p, regions, duration) ==
  IF p = "strict_merge" THEN apply_padding_to_regions(regions, 0, duration, TRUE)
  ELSE IF p \in {"energy_merge", "energy_merge_negative_gap"}
  THEN merge_nearby_regions(regions, PassTolerance(p))
  ELSE CutterMerge(regions)

\* The grid step is the size of the tolerance of the pass, so that gaps
\* below, at and above the tolerance all occur.
InitMergePass ==
  /\ pipeline \in MergePasses
  /\ quiet_regions \in RegionLists(PassUnit(pipeline))
  /\ audio_duration = MaxGrid * PassUnit(pipeline)
  /\ padding_ms = 0
  /\ min_silence_len_ms = 0
  /\ silence_thresh_db = Threshold
  /\ frames = <<>>
  /\ speech_timestamps = <<>>
  /\ stage = "start"
  /\ smoothed_levels = <<>>
  /\ merged_regions = <<>>
  /\ filtered_regions = <<>>
  /\ padded_regions = <<>>
  /\ final_regions = <<>>
  /\ output_regions = <<>>
  /\ stdout = <<>>
  /\ error_printed = FALSE
  /\ exit_status = None
  /\ current_rate = None
  /\ vad_rate = None
  /\ NoVideo

\* The merge pass on the list.
MergeOnce ==
  /\ pipeline \in MergePasses /\ stage = "start"
  /\ merged_regions' = MergePass(pipeline, quiet_regions, audio_duration)
  /\ stage' = "merged"
  /\ UNCHANGED <<inputs, media, console, smoothed_levels, quiet_regions, filtered_regions,
                 padded_regions, final_regions, output_regions>>

\* The same merge pass on its own output.
MergeAgain ==
  /\ pipeline \in MergePasses /\ stage = "merged"
  /\ final_regions' = MergePass(pipeline, merged_regions, audio_duration)
  /\ stage' = "final"
  /\ UNCHANGED <<inputs, media, console, smoothed_levels, quiet_regions, merged_regions,
                 filtered_regions, padded_regions, output_regions>>

NextMergePass == MergeOnce \/ MergeAgain

SpecMergePass == InitMergePass /\ [][NextMergePass]_vars

(***************************************************************************)
(* The loudness profilers on their own, on a buffer of digital silence.    *)
(* The buffer is mono, sampled at 1000 Hz, so that it has one sample per   *)
(* millisecond and audio_duration is also its number of samples.           *)
(***************************************************************************)
frame_rate == 1000

\* frame_size_ms of silence_detector.analyze_audio_levels, as main passes it.
strict_frame_size_ms == 20

\* frame_size_ms of calculate_energy_levels, as main passes it.
energy_frame_size_ms == 200

\* frame_size_ms of audio_analyzer.analyze_audio_levels (its default).
analyzer_frame_size_ms == 100

\* The level given to a frame whose RMS is 0.
silent_db == -80

Profilers == {"strict_profiler", "energy_profiler", "analyzer_profiler"}

FrameSizeMs(p) ==
  IF p = "strict_profiler" THEN strict_frame_size_ms
  ELSE IF p = "energy_profiler" THEN energy_frame_size_ms
  ELSE analyzer_frame_size_ms

\* frame_size_samples = int(audio.frame_rate * frame_size_ms / 1000).
FrameSizeSamples(p) == (frame_rate * FrameSizeMs(p)) \div 1000

\* The step of the loop over the samples: the frame size in
\* silence_detector, half of it (50% overlap) in the two others.
HopSizeSamples(p) ==
  IF p = "strict_profiler" THEN FrameSizeSamples(p)
  ELSE FrameSizeSamples(p) \div 2

\* The stop of the loop over the samples: len(audio_array) in
\* silence_detector, len(audio_array) - frame_size_samples in the others.
LoopStop(p, n_samples) ==
  IF p = "strict_profiler" THEN n_samples
  ELSE n_samples - FrameSizeSamples(p)

\* len(range(0, stop, step)).
RangeLen(stop, step) ==
  IF stop <= 0 THEN 0 ELSE (stop + step - 1) \div step

\* The first sample of every measured frame.
FrameStarts(p, n_samples) ==
  [k \in 1..RangeLen(LoopStop(p, n_samples), HopSizeSamples(p)) |->
     (k - 1) * HopSizeSamples(p)]

\* The samples of the frame that starts at sample i:
\* audio_array[i:i + frame_size_samples].
FrameSamples(p, i, n_samples) ==
  i..(Min(i + FrameSizeSamples(p), n_samples) - 1)

\* The profile of a silent buffer: (timestamp_ms, db_level) per frame, the
\* levels of the energy profile in thirds of a dB, the timestamps of
\* audio_analyzer (seconds) in thousandths.
ProfileOf(p, n_samples) ==
  LET starts == FrameStarts(p, n_samples)
  IN [k \in 1..Len(starts) |->
        <<(starts[k] * 1000) \div frame_rate,
          IF p = "energy_profiler" THEN silent_db * window_size ELSE silent_db>>]

InitProfiler ==
  /\ pipeline \in Profilers
  /\ audio_duration \in 0..MaxSamples
  /\ frames = <<>>
  /\ padding_ms = 0
  /\ min_silence_len_ms = 0
  /\ silence_thresh_db = Threshold
  /\ speech_timestamps = <<>>
  /\ Blank

\* The profiler on the buffer.
Profile ==
  /\ pipeline \in Profilers /\ stage = "start"
  /\ frames' = ProfileOf(pipeline, audio_duration)
  /\ stage' = "profiled"
  /\ UNCHANGED <<pipeline, speech_timestamps, silence_thresh_db,
                 min_silence_len_ms, padding_ms, audio_duration, console, media,
                 smoothed_levels, quiet_regions, merged_regions,
                 filtered_regions, padded_regions, final_regions,
                 output_regions>>

NextProfiler == Profile

SpecProfiler == InitProfiler /\ [][NextProfiler]_vars

(***************************************************************************)
(* resample_for_vad on its own, on audio of any frame rate.                *)
(***************************************************************************)
\* Frame rates in Hz: the multiples of 1 kHz and the rates of the CD family.
Rates == {k * 1000 : k \in 1..MaxRateKHz} \cup {11025, 22050, 44100, 88200}

InitResample ==
  /\ pipeline = "resample"
  /\ frames = <<>>
  /\ speech_timestamps = <<>>
  /\ silence_thresh_db = Threshold
  /\ min_silence_len_ms = 0
  /\ padding_ms = 0
  /\ audio_duration = 0
  /\ stage = "start"
  /\ smoothed_levels = <<>>
  /\ quiet_regions = <<>>
  /\ merged_regions = <<>>
  /\ filtered_regions = <<>>
  /\ padded_regions = <<>>
  /\ final_regions = <<>>
  /\ output_regions = <<>>
  /\ stdout = <<>>
  /\ error_printed = FALSE
  /\ exit_status = None
  /\ current_rate \in Rates
  /\ vad_rate = None
  /\ NoVideo

\* vad_analysis: audio = resample_for_vad(audio).
Resample ==
  /\ pipeline = "resample" /\ stage = "start"
  /\ vad_rate' = resample_for_vad(current_rate)
  /\ stage' = "resampled"
  /\ UNCHANGED <<inputs, console, current_rate, video, smoothed_levels,
                 quiet_regions, merged_regions, filtered_regions,
                 padded_regions, final_regions, output_regions>>

NextResample == Resample

SpecResample == InitResample /\ [][NextResample]_vars

(***************************************************************************)
(* frame_decimator.py                                                      *)
(* stdout holds "progress" for a progress object and "result_ok" or        *)
(* "result_error" for a final result object; times are whole seconds.      *)
(***************************************************************************)
\* What the detectors keep, which frame_decimator leaves alone.
audio_state ==
  <<inputs, current_rate, vad_rate, smoothed_levels, quiet_regions,
    merged_regions, filtered_regions, padded_regions, final_regions,
    output_regions>>

\* main: print(json.dumps(error_result)) and sys.exit(1), in the checks of
\* the arguments and in the except handler around process_video.
ResultError ==
  /\ stdout' = Append(stdout, "result_error")
  /\ exit_status' = 1
  /\ stage' = "exited"
  /\ UNCHANGED error_printed

\* main: print(json.dumps(result)) and the normal end of the process.
ResultOk ==
  /\ stdout' = Append(stdout, "result_ok")
  /\ exit_status' = 0
  /\ stage' = "exited"
  /\ UNCHANGED error_printed

\* An exception that no handler catches: the traceback goes to standard
\* error and the interpreter exits with status 1.
Uncaught ==
  /\ error_printed' = TRUE
  /\ exit_status' = 1
  /\ stage' = "exited"
  /\ UNCHANGED stdout

\* print(json.dumps(progress_json)).
PrintProgress ==
  /\ stdout' = Append(stdout, "progress")
  /\ UNCHANGED <<error_printed, exit_status>>

\* What get_video_info returns: (0, 0) when ffprobe fails, the frame count
\* (0 when ffprobe gives none) and the frame rate of the first video stream,
\* and nothing (None, here the empty tuple) when ffprobe lists no stream.
NoInfo == <<>>

VideoInfos == {NoInfo, <<0, 0>>, <<0, 25>>, <<10, 25>>}

\* What get_video_duration returns: 0 when ffprobe fails, else the seconds.
VideoDurations == {0, 4}

InitDecimator ==
  /\ pipeline = "decimator"
  /\ frames = <<>>
  /\ speech_timestamps = <<>>
  /\ silence_thresh_db = Threshold
  /\ min_silence_len_ms = 0
  /\ padding_ms = 0
  /\ audio_duration = 0
  /\ Blank

\* main: the check of the number of arguments.
DecimatorArgs ==
  /\ pipeline = "decimator" /\ stage = "start"
  /\ \E argc_ok \in BOOLEAN :
       IF argc_ok THEN stage' = "args_ok" /\ UNCHANGED console
       ELSE ResultError
  /\ UNCHANGED <<audio_state, video>>

\* main: "Validate input file exists".
DecimatorInput ==
  /\ pipeline = "decimator" /\ stage = "args_ok"
  /\ \E exists \in BOOLEAN :
       IF exists THEN stage' = "input_ok" /\ UNCHANGED console
       ELSE ResultError
  /\ UNCHANGED <<audio_state, video>>

\* main: "Check if file is a video".
DecimatorFormat ==
  /\ pipeline = "decimator" /\ stage = "input_ok"
  /\ \E valid_extension \in BOOLEAN :
       IF valid_extension THEN stage' = "format_ok" /\ UNCHANGED console
       ELSE ResultError
  /\ UNCHANGED <<audio_state, video>>

\* main: "Create output directory if needed"; os.makedirs is called outside
\* the try block and may raise OSError.
DecimatorOutputDir ==
  /\ pipeline = "decimator" /\ stage = "format_ok"
  /\ \E raised \in BOOLEAN :
       IF raised THEN Uncaught
       ELSE stage' = "ready" /\ UNCHANGED console
  /\ UNCHANGED <<audio_state, video>>

\* process_video: original_frames, frame_rate = get_video_info(input_path);
\* unpacking None raises TypeError, which main's handler catches.
GetVideoInfo ==
  /\ pipeline = "decimator" /\ stage = "ready"
  /\ \E info \in VideoInfos :
       IF info = NoInfo
       THEN ResultError /\ UNCHANGED <<original_frames, video_frame_rate>>
       ELSE /\ original_frames' = info[1]
            /\ video_frame_rate' = info[2]
            /\ stage' = "info"
            /\ UNCHANGED console
  /\ UNCHANGED <<audio_state, video_duration, last_reported_frame,
                 last_progress_time, return_code, lines_read>>

\* process_video: duration = get_video_duration(input_path).
GetVideoDuration ==
  /\ pipeline = "decimator" /\ stage = "info"
  /\ video_duration' \in VideoDurations
  /\ stage' = "probed"
  /\ UNCHANGED <<audio_state, console, original_frames, video_frame_rate,
                 last_reported_frame, last_progress_time, return_code,
                 lines_read>>

\* process_video: subprocess.Popen, which raises when ffmpeg cannot be
\* started, and the initial values of the progress tracking.
StartFfmpeg ==
  /\ pipeline = "decimator" /\ stage = "probed"
  /\ \E raised \in BOOLEAN :
       IF raised
       THEN ResultError /\ UNCHANGED <<last_reported_frame, last_progress_time>>
       ELSE /\ last_progress_time' = 0
            /\ last_reported_frame' = -1
            /\ stage' = "running"
            /\ UNCHANGED console
  /\ UNCHANGED <<audio_state, original_frames, video_frame_rate,
                 video_duration, return_code, lines_read>>

\* process_video: a complete update of the -progress output, reporting
\* output frame current_frame at current_time.  An update whose frame count
\* changed is printed; its percentage divides by original_frames when the
\* duration is unknown.
ReadProgress ==
  /\ pipeline = "decimator" /\ stage = "running" /\ lines_read < MaxLines
  /\ lines_read' = lines_read + 1
  /\ \E current_frame \in 0..MaxFrame, current_time \in 0..MaxTime :
       IF current_frame # last_reported_frame /\ current_frame > 0
       THEN /\ last_reported_frame' = current_frame
            /\ IF video_duration > 0 \/ original_frames # 0
               THEN PrintProgress /\ UNCHANGED stage
               ELSE ResultError
       ELSE UNCHANGED <<last_reported_frame, console, stage>>
  /\ UNCHANGED <<audio_state, original_frames, video_frame_rate,
                 video_duration, last_progress_time, return_code>>

\* process_video: a line of the regular stderr output of ffmpeg, reporting
\* current_time.  Its percentage divides by original_frames; it is printed
\* when the whole second changed.
ReadStatus ==
  /\ pipeline = "decimator" /\ stage = "running" /\ lines_read < MaxLines
  /\ lines_read' = lines_read + 1
  /\ \E current_time \in 0..MaxTime :
       IF video_duration > 0 /\ video_frame_rate > 0
       THEN IF original_frames = 0
            THEN ResultError /\ UNCHANGED last_progress_time
            ELSE IF current_time > last_progress_time
            THEN /\ last_progress_time' = current_time
                 /\ PrintProgress
                 /\ UNCHANGED stage
            ELSE UNCHANGED <<last_progress_time, console, stage>>
       ELSE UNCHANGED <<last_progress_time, console, stage>>
  /\ UNCHANGED <<audio_state, original_frames, video_frame_rate,
                 video_duration, last_reported_frame, return_code>>

\* process_video: return_code = process.wait(), and the exception raised for
\* a return code other than 0.
FfmpegExit ==
  /\ pipeline = "decimator" /\ stage = "running"
  /\ \E rc \in {0, 1} :
       /\ return_code' = rc
       /\ IF rc # 0 THEN ResultError
          ELSE stage' = "finished" /\ UNCHANGED console
  /\ UNCHANGED <<audio_state, original_frames, video_frame_rate,
                 video_duration, last_reported_frame, last_progress_time,
                 lines_read>>

\* process_video: output_frames, _ = get_video_info(output_path) and the
\* statistics; main: print(json.dumps(result)).
DecimatorResult ==
  /\ pipeline = "decimator" /\ stage = "finished"
  /\ \E info \in VideoInfos :
       IF info = NoInfo THEN ResultError ELSE ResultOk
  /\ UNCHANGED <<audio_state, video>>

NextDecimator ==
  \/ DecimatorArgs
  \/ DecimatorInput
  \/ DecimatorFormat
  \/ DecimatorOutputDir
  \/ GetVideoInfo
  \/ GetVideoDuration
  \/ StartFfmpeg
  \/ ReadProgress
  \/ ReadStatus
  \/ FfmpegExit
  \/ DecimatorResult

SpecDecimator == InitDecimator /\ [][NextDecimator]_vars

(***************************************************************************)
(* Properties.                                                             *)
(***************************************************************************)
\* Order of two values in seconds, each a fraction <<num, den>>.
SecLeq(a, b) == a[1] * b[2] <= b[1] * a[2]

SecLt(a, b) == a[1] * b[2] < b[1] * a[2]

\* b - a >= ms / 1000, for a and b in seconds.
SecApart(a, b, ms) ==
  (b[1] * a[2] - a[1] * b[2]) * 1000 >= ms * a[2] * b[2]

Finalized == stage \in {"final", "done"}

Detected == stage \in {"detected", "merged", "filtered", "padded", "final", "done"}

\* The sorted-interval merge as the specification words it: the next region
\* joins the running one iff next.start - running.end <= tolerance, and the
\* joined region ends at the larger of the two ends.
RECURSIVE SpecMergeLoop(_, _, _)
SpecMergeLoop(merged, rest, tolerance) ==
  IF rest = <<>> THEN merged
  ELSE LET running == merged[Len(merged)]
           next == Head(rest)
       IN IF next[1] - running[2] <= tolerance
          THEN SpecMergeLoop(
                 [merged EXCEPT ![Len(merged)] =
                    <<running[1], Max(running[2], next[2])>>],
                 Tail(rest), tolerance)
          ELSE SpecMergeLoop(Append(merged, next), Tail(rest), tolerance)

SpecMerge(regions, tolerance) ==
  IF regions = <<>> THEN <<>>
  ELSE SpecMergeLoop(<<Head(regions)>>, Tail(regions), tolerance)

\* C1: in each of the four pipelines, for padding_ms >= 0, the emitted
\* intervals are sorted ascending by start and each starts at or after the
\* end of the one before it.
C1_SortedDisjoint ==
  (stage = "done" /\ padding_ms >= 0) =>
    \A i \in 1..(Len(output_regions) - 1) :
      /\ SecLeq(output_regions[i][1], output_regions[i + 1][1])
      /\ SecLeq(output_regions[i][2], output_regions[i + 1][1])

\* The merge gap tolerance of a pipeline with a merge pass, in ms.
ToleranceOf(p) ==
  IF p = "strict" THEN merge_tolerance
  ELSE IF p = "energy" THEN merge_gap_ms
  ELSE cutter_merge_gap

\* C2: in each pipeline with a merge pass, for padding_ms >= 0, consecutive
\* intervals of the output are at least the merge gap tolerance apart.
C2_GapAtLeastTolerance ==
  (stage = "done" /\ pipeline \in {"strict", "energy", "cutter"}
     /\ padding_ms >= 0) =>
    \A i \in 1..(Len(output_regions) - 1) :
      SecApart(output_regions[i][2], output_regions[i + 1][1],
               ToleranceOf(pipeline))

\* C3: every emitted interval has end > start and lies within
\* [0, duration] of the audio, whatever the sign of the padding.
C3_WithinAudio ==
  stage = "done" =>
    \A i \in 1..Len(output_regions) :
      /\ SecLt(output_regions[i][1], output_regions[i][2])
      /\ SecLeq(<<0, 1>>, output_regions[i][1])
      /\ SecLeq(output_regions[i][2], ToSeconds(audio_duration))

\* A region closed at the end of the stream, past the end of the audio,
\* was emitted.
C3_Witness ==
  /\ stage = "done"
  /\ pipeline = "strict"
  /\ quiet_regions # <<>>
  /\ quiet_regions[Len(quiet_regions)][2] > audio_duration
  /\ output_regions # <<>>
  /\ output_regions[Len(output_regions)][2] = ToSeconds(audio_duration)

\* C4: each merge pass, run again on its own output, returns that output,
\* whatever the list of regions it was first given.
C4_MergeIdempotent ==
  (pipeline \in MergePasses /\ stage = "final") =>
    final_regions = merged_regions

\* A list that was not sorted by start was merged into fewer regions, and
\* merged again.
C4_Witness ==
  /\ pipeline \in MergePasses
  /\ stage = "final"
  /\ Len(quiet_regions) = 3
  /\ quiet_regions[2][1] < quiet_regions[1][1]
  /\ Len(merged_regions) = 2

Regions(seq) == {seq[i] : i \in 1..Len(seq)}

\* C5: raising quiet_frame_threshold never adds a region: along the purities
\* 1/2 < 4/5 (main's) < 9/10 < 1, the regions of each higher purity are among
\* those of the next lower one, and no more numerous.
C5_PurityMonotone ==
  (pipeline = "strict" /\ stage = "detected") =>
    LET Found(p) == group_quiet_regions(frames, silence_thresh_db,
                      MinQuietFrames(min_silence_len_ms), p)
        half == Found(<<1, 2>>)
        most == Found(<<9, 10>>)
        all  == Found(<<1, 1>>)
        Fewer(hi, lo) == /\ Regions(hi) \subseteq Regions(lo)
                         /\ Len(hi) <= Len(lo)
    IN /\ Fewer(quiet_regions, half)
       /\ Fewer(most, quiet_regions)
       /\ Fewer(all, most)

\* A purity of 1/2 finds a region that main's 0.8 does not.
C5_Witness ==
  /\ pipeline = "strict"
  /\ stage = "detected"
  /\ Len(group_quiet_regions(frames, silence_thresh_db,
                             MinQuietFrames(min_silence_len_ms), <<1, 2>>))
       > Len(quiet_regions)

AllQuiet ==
  /\ frames # <<>>
  /\ \A i \in 1..Len(frames) : frames[i][2] < silence_thresh_db

\* C6: an all-quiet, non-empty profile gives the strict pipeline exactly one
\* region, from 0 to the audio duration.
C6_AllSilentOneRegion ==
  (pipeline = "strict" /\ stage = "final" /\ AllQuiet) =>
    final_regions = <<<<0, audio_duration>>>>

\* v >= clamp(min(base, mean - 2*std), base - 15, base), for a level v and
\* a base in thirds of a dB.
AtOrAboveAdaptive(v, stats, base) ==
  /\ v >= base - adaptive_margin_db * window_size
  /\ v >= base \/ ~BelowMeanMinus2Std(v, stats)

AllLoudEnergy(adaptive) ==
  LET base == silence_thresh_db * window_size
      stats == LevelStats(smoothed_levels)
  IN \A i \in 1..Len(smoothed_levels) :
       IF adaptive /\ Len(smoothed_levels) > adaptive_min_levels
       THEN AtOrAboveAdaptive(smoothed_levels[i][2], stats, base)
       ELSE smoothed_levels[i][2] >= base

\* C7: if every frame is at or above the effective threshold, both energy
\* segmenters return no region and the pipeline emits no interval.
C7_AllLoudNoRegion ==
  /\ (pipeline = "strict" /\ Detected
        /\ \A i \in 1..Len(frames) : frames[i][2] >= silence_thresh_db) =>
       /\ quiet_regions = <<>>
       /\ Finalized => final_regions = <<>>
       /\ stage = "done" => output_regions = <<>>
  /\ (pipeline = "energy" /\ stage = "detected") =>
       \A adaptive \in BOOLEAN :
         AllLoudEnergy(adaptive) =>
           detect_quiet_regions_adaptive(
             smoothed_levels, silence_thresh_db,
             MinRegionDuration(min_silence_len_ms), adaptive) = <<>>
  /\ (pipeline = "energy" /\ Detected /\ AllLoudEnergy(TRUE)) =>
            /\ quiet_regions = <<>>
            /\ Finalized => final_regions = <<>>
            /\ stage = "done" => output_regions = <<>>

\* 10 s at -10 dB against a threshold of -40 dB went through the energy
\* pipeline.
C7_Witness ==
  /\ pipeline = "energy"
  /\ stage = "done"
  /\ frames = ScenarioA
  /\ output_regions = <<>>

\* The gaps of the complement of the speech over [0, duration]: before the
\* first segment, between consecutive segments, after the last one.
ComplementGaps(ts, duration) ==
  IF ts = <<>> THEN {}
  ELSE {<<0, ts[1][1]>>, <<ts[Len(ts)][2], duration>>}
         \cup {<<ts[i][2], ts[i + 1][1]>> : i \in 1..(Len(ts) - 1)}

C9_MergeIffWithinTolerance ==
  /\ (pipeline = "strict" /\ Finalized) =>
       final_regions
         = SpecMerge(Sort(PadRegions(quiet_regions, padding_ms, audio_duration)),
                     merge_tolerance)
  /\ (pipeline = "energy" /\ stage \in {"merged", "filtered", "final", "done"}) =>
       merged_regions = SpecMerge(quiet_regions, merge_gap_ms)
  /\ (pipeline = "cutter" /\ Finalized) =>
       final_regions = SpecMerge(padded_regions, cutter_merge_gap)

\* Every region [s, e] shrunk to [s + p, e - p], the empty ones dropped.
RECURSIVE ContractRegions(_, _)
ContractRegions(regions, p) ==
  IF regions = <<>> THEN <<>>
  ELSE LET s == Head(regions)[1] + p
           e == Head(regions)[2] - p
       IN (IF e <= s THEN <<>> ELSE <<<<s, e>>>>)
          \o ContractRegions(Tail(regions), p)

RECURSIVE ContractClamped(_, _, _)
ContractClamped(regions, p, duration) ==
  IF regions = <<>> THEN <<>>
  ELSE LET s == Head(regions)[1] + p
           e == Min(duration, Head(regions)[2] - p)
       IN (IF e <= s THEN <<>> ELSE <<<<s, e>>>>)
          \o ContractClamped(Tail(regions), p, duration)

RECURSIVE ExpandKept(_, _, _, _)
ExpandKept(regions, p, duration, min_len) ==
  IF regions = <<>> THEN <<>>
  ELSE LET n == Len(regions)
           s == Max(0, regions[n][1] - p)
           e == Min(duration, regions[n][2] + p)
       IN ExpandKept(SubSeq(regions, 1, n - 1), p, duration, min_len)
            \o (IF e - s > min_len THEN <<<<s, e>>>> ELSE <<>>)

\* The padded regions of the running pipeline, as the code computed them.
PaddedByCode ==
  IF pipeline = "strict"
  THEN apply_padding_to_regions(quiet_regions, padding_ms, audio_duration, FALSE)
  ELSE IF pipeline = "cutter" THEN padded_regions
  ELSE final_regions

\* The regions the padding is applied to.
PaddingInput ==
  IF pipeline = "energy" THEN filtered_regions ELSE quiet_regions

PaddingDone ==
  \/ pipeline \in {"strict", "energy", "vad"} /\ stage = "final"
  \/ pipeline = "cutter" /\ stage = "padded"

C12_EmptyInputNoRegion ==
  /\ (pipeline \in {"strict", "vad"} /\ Detected /\ frames = <<>>) =>
       quiet_regions = <<>>
  /\ (pipeline = "energy" /\ Detected /\ frames = <<>>) =>
       /\ smoothed_levels = <<>>
       /\ quiet_regions = <<>>
  /\ (pipeline = "cutter" /\ Detected /\ speech_timestamps = <<>>) =>
       quiet_regions = <<>>

\* No speech was found in an audio of positive duration.
C12_Witness ==
  /\ pipeline = "cutter"
  /\ stage = "detected"
  /\ speech_timestamps = <<>>
  /\ audio_duration > min_gap
  /\ quiet_regions = <<>>

\* v < clamp(x, lo, hi) for lo <= hi, given whether v < x.
BelowClamp(v, below_x, lo, hi) == v < lo \/ (v < hi /\ below_x)

\* Levels around [base - 15, base], in thirds of a dB.
ProbeLevels(base) ==
  (base - adaptive_margin_db * window_size - 2)..(base + 2)

\* C13: a level is below the effective threshold of
\* detect_quiet_regions_adaptive iff it is below
\* clamp(min(base, mean - 2*std), base - 15, base) when adaptive is on and
\* there are more than 20 levels, and iff it is below base otherwise; so
\* every level below base - 15 is below the threshold and no level at or
\* above base is.
C13_EffectiveThreshold ==
  (pipeline = "energy" /\ stage = "detected") =>
    LET base == silence_thresh_db * window_size
        low == base - adaptive_margin_db * window_size
        stats == LevelStats(smoothed_levels)
    IN \A v \in ProbeLevels(base) : \A adaptive \in BOOLEAN :
         LET below == BelowDynamic(v, stats, silence_thresh_db, adaptive)
         IN /\ (adaptive /\ Len(smoothed_levels) > 20) =>
                 (below <=> BelowClamp(v, v < base /\ BelowMeanMinus2Std(v, stats),
                                       low, base))
            /\ ~(adaptive /\ Len(smoothed_levels) > 20) => (below <=> v < base)
            /\ v < low => below
            /\ v >= base => ~below

\* mean - 2*std fell below base - 15 on a profile of more than 20 levels,
\* and the levels under base - 15 were found quiet.
C13_Witness ==
  /\ pipeline = "energy"
  /\ stage = "detected"
  /\ Len(smoothed_levels) > 20
  /\ ~BelowMeanMinus2Std(
        (silence_thresh_db - adaptive_margin_db) * window_size - 1,
        LevelStats(smoothed_levels))
  /\ quiet_regions # <<>>

\* C14: a run that fails has written nothing to standard output, has printed
\* an error message to standard error and exits with status 1; a run that
\* succeeds has written the JSON list, once and last, and exits with 0.
C14_NoStdoutOnFailure ==
  /\ stage = "failed" =>
       /\ stdout = <<>>
       /\ error_printed
       /\ exit_status = 1
  /\ stage = "done" =>
       /\ stdout # <<>>
       /\ stdout[Len(stdout)] = "json"
       /\ \A i \in 1..(Len(stdout) - 1) : stdout[i] # "json"
       /\ ~error_printed
       /\ exit_status = 0

\* C15: a contradictory configuration, such as a negative merge gap, is
\* rejected before any region is scanned: the pass is not run, no region is
\* computed and an error is reported.
C15_ContradictoryConfigRejected ==
  (pipeline \in MergePasses /\ PassTolerance(pipeline) < 0) =>
    \/ stage = "start"
    \/ /\ merged_regions = <<>>
       /\ final_regions = <<>>
       /\ error_printed

\* C16: every profiler returns a non-empty profile for a non-empty buffer.
C16_ProfileNonEmpty ==
  (pipeline \in Profilers /\ stage = "profiled" /\ audio_duration > 0) =>
    frames # <<>>

\* C17: every sample of the buffer lies in at least one measured frame.
C17_EverySampleCovered ==
  (pipeline \in Profilers /\ stage = "profiled") =>
    \A j \in 0..(audio_duration - 1) :
      \E k \in 1..Len(frames) :
        j \in FrameSamples(pipeline, (frames[k][1] * frame_rate) \div 1000,
                           audio_duration)

\* The scanner's states after each of the frames lo..hi of the running
\* pipeline, entered in state st.
RECURSIVE GroupTrace(_, _, _)
GroupTrace(lo, hi, st) ==
  IF lo > hi THEN <<>>
  ELSE IF lo = hi
  THEN <<GroupStep(st, frames[lo], silence_thresh_db,
                   MinQuietFrames(min_silence_len_ms), MainPurity)>>
  ELSE LET mid == (lo + hi) \div 2
           left == GroupTrace(lo, mid, st)
       IN left \o GroupTrace(mid + 1, hi, left[Len(left)])

\* The scanner's states before the first frame and after each frame.
GroupStates == <<GroupInit>> \o GroupTrace(1, Len(frames), GroupInit)

\* The number of frames from..to that are below the threshold.
QuietCount(from, to) ==
  Cardinality({i \in from..to : frames[i][2] < silence_thresh_db})

\* As many as `fraction` of the frames from..to are below the threshold.
QuietFractionGeq(from, to, fraction) ==
  QuietCount(from, to) * fraction[2] >= fraction[1] * (to - from + 1)

\* The index of the frame on which the region tracked in state st began.
RegionFirstFrame(st) == st.current_region_start \div frame_duration + 1

GroupEnd == GroupStates[Len(frames) + 1]

Round(num, den) ==
  LET q == num \div den
      r == num % den
  IN IF 2 * r < den THEN q
     ELSE IF 2 * r > den THEN q + 1
     ELSE IF q % 2 = 0 THEN q ELSE q + 1

\* C20: the minimum region length in frames that the strict pipeline
\* passes to group_quiet_regions is
\* max(1, round(min_silence_len_ms / frame_duration)).
C20_MinFramesRounded ==
  (pipeline = "strict" /\ stage = "detected") =>
    MinQuietFrames(min_silence_len_ms)
      = Max(1, Round(min_silence_len_ms, frame_duration))

\* The maximal runs of quiet levels of the energy pipeline, as pairs
\* <<first, last>> of indices into smoothed_levels.
QuietRuns ==
  LET quiet == QuietFlags(smoothed_levels, silence_thresh_db, TRUE)
      n == Len(smoothed_levels)
      firsts == {i \in 1..n : quiet[i] /\ (i = 1 \/ ~quiet[i - 1])}
      lasts == {j \in 1..n : quiet[j] /\ (j = n \/ ~quiet[j + 1])}
  IN {r \in firsts \X lasts :
        r[1] <= r[2] /\ \A k \in r[1]..r[2] : quiet[k]}

\* The region of the run r: from its first timestamp to the timestamp of the
\* loud level that follows it, or to one frame after the last level.
RunRegion(r) ==
  <<smoothed_levels[r[1]][1],
    IF r[2] < Len(smoothed_levels)
    THEN smoothed_levels[r[2] + 1][1]
    ELSE smoothed_levels[r[2]][1] + frame_duration_ms>>

\* C21: the regions of detect_quiet_regions_adaptive are, in order, those
\* of the maximal runs of quiet levels (opened on the first quiet level,
\* closed on the first loud level after it or one frame after the last
\* level) that are at least min_region_ms long.
C21_RunsLongEnough ==
  (pipeline = "energy" /\ stage = "detected") =>
    LET min_region_ms == MinRegionDuration(min_silence_len_ms)
        expected == {RunRegion(r) : r \in
                       {q \in QuietRuns :
                          RunRegion(q)[2] - RunRegion(q)[1] >= min_region_ms}}
    IN /\ {quiet_regions[i] : i \in 1..Len(quiet_regions)} = expected
       /\ Len(quiet_regions) = Cardinality(expected)
       /\ \A i \in 1..(Len(quiet_regions) - 1) :
            quiet_regions[i][2] < quiet_regions[i + 1][1]

\* A run closed by a loud level was emitted, and a run open at the end of
\* the levels was dropped as too short.
C21_Witness ==
  /\ pipeline = "energy" /\ stage = "detected"
  /\ quiet_regions # <<>>
  /\ Cardinality(QuietRuns) > Len(quiet_regions)
  /\ \E r \in QuietRuns :
       /\ r[2] = Len(smoothed_levels)
       /\ \A i \in 1..Len(quiet_regions) : quiet_regions[i] # RunRegion(r)

\* The merge pass of the running pipeline on the regions `padded`.
MergePassOf(padded) ==
  IF pipeline = "strict"
  THEN (IF Len(padded) <= 1 THEN padded
        ELSE MergeLoop(<<Head(Sort(padded))>>, Tail(Sort(padded))))
  ELSE IF pipeline = "energy" THEN merge_nearby_regions(padded, merge_gap_ms)
  ELSE CutterMerge(padded)

\* The padding of the running pipeline on the candidates `regions`.
PaddingOf(regions) ==
  IF pipeline = "cutter" THEN CutterPad(regions, padding_ms, audio_duration)
  ELSE PadRegions(regions, padding_ms, audio_duration)

\* C22: in the pipelines that merge, the candidates are padded first and
\* the merge pass runs on the padded regions; the final regions are the
\* output of the merge pass and are not padded afterwards.
C22_PadThenMerge ==
  (pipeline \in {"strict", "energy", "cutter"} /\ Finalized) =>
    final_regions = MergePassOf(PaddingOf(quiet_regions))

\* The list is sorted by start.
SortedByStart(regions) ==
  \A i \in 1..(Len(regions) - 1) : regions[i][1] <= regions[i + 1][1]

\* The cell [a * unit, (a + 1) * unit] of the grid lies in a region of the
\* list.
CellCovered(a, unit, regions) ==
  \E i \in 1..Len(regions) :
    regions[i][1] <= a * unit /\ (a + 1) * unit <= regions[i][2]

\* C23: for a list sorted by start, nested regions and duplicate starts
\* included, the union of the regions a merge pass returns contains the
\* union of the regions it was given.
C23_MergeKeepsUnion ==
  (/\ pipeline \in MergePasses /\ PassTolerance(pipeline) >= 0
   /\ stage = "merged" /\ SortedByStart(quiet_regions)) =>
    \A a \in 0..(MaxGrid - 1) :
      CellCovered(a, PassUnit(pipeline), quiet_regions) =>
        CellCovered(a, PassUnit(pipeline), merged_regions)

\* Every region of the list ends after it starts.
EndsAfterStart(regions) ==
  \A i \in 1..Len(regions) : regions[i][2] > regions[i][1]

\* C24: every candidate region of a segmenter ends strictly after it
\* starts, for the minimum length the pipeline passes and for other minimum
\* lengths from 0 on.
C24_CandidatesNonEmpty ==
  /\ (pipeline = "strict" /\ stage = "detected") =>
       /\ EndsAfterStart(quiet_regions)
       /\ \A min_quiet_frames \in 0..3 :
            EndsAfterStart(group_quiet_regions(frames, silence_thresh_db,
                                               min_quiet_frames, MainPurity))
  /\ (pipeline = "energy" /\ stage = "detected") =>
       /\ EndsAfterStart(quiet_regions)
       /\ \A min_region_ms \in {0, frame_duration_ms, min_final_ms} :
            EndsAfterStart(
              detect_quiet_regions_adaptive(smoothed_levels, silence_thresh_db,
                                            min_region_ms, TRUE))
  /\ (pipeline = "vad" /\ stage = "detected") =>
       /\ EndsAfterStart(quiet_regions)
       /\ \A min_silence_ms \in {0, vad_frame_ms, 2 * vad_frame_ms} :
            EndsAfterStart(find_non_speech_regions(frames, min_silence_ms))

\* The frames ended on a single non-speech frame, emitted as a region of
\* one frame.
C24_Witness ==
  /\ pipeline = "vad" /\ stage = "detected"
  /\ Len(frames) > 1
  /\ frames[Len(frames) - 1][2]
  /\ quiet_regions # <<>>
  /\ quiet_regions[Len(quiet_regions)]
       = <<frames[Len(frames)][1], frames[Len(frames)][1] + vad_frame_ms>>

\* The rates WebRTC VAD supports.
SupportedRates == {8000, 16000, 32000, 48000}

\* The supported rates above the rate.
HigherRates(rate) == {r \in SupportedRates : r > rate}

\* C25: resample_for_vad returns a supported rate unchanged; any other rate
\* becomes the closest supported rate above it, or 48000 Hz when no
\* supported rate is above it.
C25_ClosestHigherRate ==
  (pipeline = "resample" /\ stage = "resampled") =>
    vad_rate =
      IF current_rate \in SupportedRates THEN current_rate
      ELSE IF HigherRates(current_rate) # {}
      THEN CHOOSE r \in HigherRates(current_rate) :
             \A q \in HigherRates(current_rate) : r <= q
      ELSE 48000

\* C26: the regions of group_quiet_regions are in ascending order and
\* disjoint: each starts at or after the end of the one before, and no frame
\* timestamp lies in two of them.
C26_CandidatesDisjoint ==
  (pipeline = "strict" /\ stage = "detected") =>
    /\ \A i \in 1..(Len(quiet_regions) - 1) :
         quiet_regions[i][2] <= quiet_regions[i + 1][1]
    /\ \A k \in 1..Len(frames) :
         Cardinality({i \in 1..Len(quiet_regions) :
                        /\ quiet_regions[i][1] <= frames[k][1]
                        /\ frames[k][1] < quiet_regions[i][2]}) <= 1

\* Quiet frames only: a region was force-closed and the next one began on
\* the frame after the closing frame.
C26_Witness ==
  /\ pipeline = "strict" /\ stage = "detected"
  /\ Len(quiet_regions) >= 2
  /\ quiet_regions[2][1] = quiet_regions[1][2] + frame_duration
  /\ \A k \in 1..Len(frames) : frames[k][2] < silence_thresh_db

\* The maximal runs of quiet frames of the strict profile that a loud frame
\* follows, as pairs <<first, last>> of frame indices.
QuietRunsBeforeLoud ==
  LET n == Len(frames)
      quiet == [k \in 1..n |-> frames[k][2] < silence_thresh_db]
      firsts == {i \in 1..n : quiet[i] /\ (i = 1 \/ ~quiet[i - 1])}
      lasts == {j \in 1..(n - 1) : quiet[j] /\ ~quiet[j + 1]}
  IN {r \in firsts \X lasts :
        r[1] <= r[2] /\ \A k \in r[1]..r[2] : quiet[k]}

\* C27: every frame of a run of at least min_quiet_frames quiet frames that
\* a loud frame follows lies in a region of group_quiet_regions.
C27_LongRunsCovered ==
  (pipeline = "strict" /\ stage = "detected") =>
    \A r \in QuietRunsBeforeLoud :
      r[2] - r[1] + 1 >= MinQuietFrames(min_silence_len_ms) =>
        \A k \in r[1]..r[2] :
          \E i \in 1..Len(quiet_regions) :
            /\ quiet_regions[i][1] <= frames[k][1]
            /\ frames[k][1] < quiet_regions[i][2]

\* C28: in the energy pipeline every region that reaches the filter of
\* short regions is at least 1000 ms long, so the filter removes none.
C28_FilterRemovesNothing ==
  (pipeline = "energy" /\ stage \in {"merged", "filtered", "final", "done"}) =>
    /\ \A i \in 1..Len(merged_regions) :
         merged_regions[i][2] - merged_regions[i][1] >= min_region_floor
    /\ stage # "merged" => filtered_regions = merged_regions

\* Two candidates were merged into one region, which passed the filter.
C28_Witness ==
  /\ pipeline = "energy" /\ stage = "filtered"
  /\ Len(quiet_regions) = 2
  /\ Len(merged_regions) = 1
  /\ filtered_regions = merged_regions

\* The region is that of the non-speech frames first..last of the VAD
\* frames: it starts on the first, the frames are consecutive non-speech
\* frames that begin a run, and it ends on the speech frame that follows or
\* one frame after the last frame.
IsNonSpeechRun(region, first, last) ==
  /\ region[1] = frames[first][1]
  /\ \A k \in first..last : ~frames[k][2]
  /\ first = 1 \/ frames[first - 1][2]
  /\ IF last < Len(frames)
     THEN frames[last + 1][2] /\ region[2] = frames[last + 1][1]
     ELSE region[2] = frames[last][1] + vad_frame_ms

\* C29: every region of find_non_speech_regions is a run of consecutive
\* non-speech frames, at least max(1, int(min_silence_ms / 30)) of them,
\* that starts on a non-speech frame and ends at the next speech frame or
\* one frame after the last timestamp; no region goes across a speech frame.
C29_NonSpeechRuns ==
  (pipeline = "vad" /\ stage = "detected") =>
    \A i \in 1..Len(quiet_regions) :
      \E first \in 1..Len(frames) :
        \E last \in first..Len(frames) :
          /\ IsNonSpeechRun(quiet_regions[i], first, last)
          /\ last - first + 1 >= Max(1, min_silence_len_ms \div vad_frame_ms)

\* A run cut short by a single speech frame was dropped, and a later run was
\* emitted.
C29_Witness ==
  /\ pipeline = "vad" /\ stage = "detected"
  /\ Len(frames) >= 3
  /\ ~frames[1][2] /\ frames[2][2] /\ ~frames[3][2]
  /\ Len(quiet_regions) = 1
  /\ quiet_regions[1][1] = frames[3][1]

\* The final result objects on standard output.
ResultLines == {i \in 1..Len(stdout) : stdout[i] \in {"result_ok", "result_error"}}

\* C30: every run of frame_decimator.main ends with exactly one final result
\* object as the last line of standard output: success with exit status 0
\* when ffmpeg returned 0, failure with exit status 1 otherwise.
C30_OneFinalResult ==
  (pipeline = "decimator" /\ stage = "exited") =>
    /\ ResultLines = {Len(stdout)}
    /\ stdout # <<>>
    /\ IF return_code = 0
       THEN stdout[Len(stdout)] = "result_ok" /\ exit_status = 0
       ELSE stdout[Len(stdout)] = "result_error" /\ exit_status = 1

====
